---------------------------- MODULE Spec2Model ----------------------------
(***************************************************************************)
(* Beat-Shooter client: the GameScreen component (hand-landmark variant,   *)
(* frontend/src/components/GameScreen.tsx lines 271-727) as a state        *)
(* machine: the timeline build (runBeforeCountdown), the countdown         *)
(* interval, the audio effect, the camera start, the frame loop            *)
(* (detectHands) and the per-frame callback (hands.onResults).             *)
(*                                                                         *)
(* Time is measured in hundredths of a second (0.05 s = 5), so that every  *)
(* duration of the source is an integer.  Opacities are kept as exact      *)
(* numerators over OpacityScale, energyNorm as a fraction num/den.         *)
(***************************************************************************)
EXTENDS Integers, Sequences, FiniteSets

(* ------------------------------------------------------------------ *)
(* Program constants (GameScreen.tsx lines 280-290), times in 1/100 s  *)
(* ------------------------------------------------------------------ *)
TILE_RADIUS == 70
TILE_WINDOW == 6
TILE_SPACING_RADIUS == 2 * TILE_RADIUS
TILE_FADE_IN_DURATION == 5
TILE_FADE_OUT_DURATION == 40
TILE_VISIBLE_DURATION == 400
TILE_BASE_OPACITY == 82
END_SCREEN_DELAY == 300
COUNTDOWN_START == 5
FALLBACK_SPACING == 50

\* null of a number-or-null cell (useRef<number | null>(null), useState<number | null>(null))
Null == -1
\* undefined audioUrl prop / null audio element / null interval handle
NoUrl == "none"

\* denominator of the opacity numerators: opacity = value / OpacityScale
OpacityScale == 100 * TILE_FADE_IN_DURATION * TILE_FADE_OUT_DURATION

(* ------------------------------------------------------------------ *)
(* Bounds of the model                                                 *)
(* ------------------------------------------------------------------ *)
\* performance.now() never exceeds MaxNow in the model
MaxNow == 1445
\* performance.now() while no session clock is running (startedAt = null)
MaxIdleNow == 500
\* number of timeline builds (audio sources accepted) per mounted component
MaxBuilds == 1
\* invocations of runBeforeCountdown a run of a replaced session can make
MaxSessions == 2
\* press events of a run of the hardware channel
MaxPresses == 2
\* landmark inferences the model lets be in flight
MaxInFlight == 2
\* handleGenerateSong runs and StartScreen instances of one behaviour
MaxPipelines == 2
MaxStartInstances == 3
\* the clock of a run of the hardware channel stops here
MaxPressNow == 26
\* buttons of the controller
Buttons == {0, 1}
\* last elapsed value of the render specification
MaxRenderElapsed == 460

\* steps by which the clock advances between two observations
TickSteps == {TILE_FADE_IN_DURATION + TILE_VISIBLE_DURATION + TILE_FADE_OUT_DURATION,
              COUNTDOWN_START * 100}

AudioUrls == {"songA", "songB"}

(* ------------------------------------------------------------------ *)
(* Pure helpers                                                        *)
(* ------------------------------------------------------------------ *)
Max2(a, b) == IF a >= b THEN a ELSE b
Min2(a, b) == IF a <= b THEN a ELSE b

\* Math.max(...s) of a non-empty array
SeqMax(s) == CHOOSE m \in {s[i] : i \in 1..Len(s)} : \A j \in 1..Len(s) : s[j] <= m
\* Math.min(...s) of a non-empty array
SeqMin(s) == CHOOSE m \in {s[i] : i \in 1..Len(s)} : \A j \in 1..Len(s) : s[j] >= m


(* ------------------------------------------------------------------ *)
(* Responses of the two setup services, as the build reads them        *)
(* ------------------------------------------------------------------ *)
\* bodies of a successful /beats/create_beats response: timestamps, types and
\* the energies of all_points.  The lengths are the service's own: all_points
\* holds every analysed point, timestamps only the selected beats.
BeatBodies ==
  { [timestamps |-> <<0, 100, 200>>, types |-> <<"low", "high", "low">>, energies |-> <<1, 3, 2>>],
    [timestamps |-> <<200, 0>>,      types |-> <<"high">>,               energies |-> <<2, 2, 2>>],
    [timestamps |-> <<>>,            types |-> <<>>,                     energies |-> <<>>] }

\* number of tiles a /tiles/generate response holds when `count` were requested:
\* the requested number, or a number of the service's own
LayoutLens(count) == {count, 5}

\* the request's width and height (window.innerWidth, window.innerHeight - 60)
WindowWidth == 1000
WindowHeight == 600
\* tile coordinates are kept in thousandths of the width / height
CoordScale == 1000
\* pixel coordinates of tile i in a layout response
LayoutX(i) == (137 * i) % WindowWidth
LayoutY(i) == (211 * i) % WindowHeight

(* ------------------------------------------------------------------ *)
(* State                                                               *)
(* ------------------------------------------------------------------ *)
VARIABLES
  mounted,              \* the component is mounted
  audioUrl,             \* prop audioUrl (NoUrl: undefined)
  builds,               \* runBeforeCountdown invocations: pc, cancelled flag, locals
  nBuilds,              \* number of invocations so far
  tilesRef,             \* tilesRef.current
  tileDisplayTimesRef,  \* tileDisplayTimesRef.current
  beatTypesRef,         \* beatTypesRef.current
  energiesRef,          \* energiesRef.current
  gameEndTimeRef,       \* gameEndTimeRef.current (Null or 1/100 s)
  gameStartTimeRef,     \* gameStartTimeRef.current (Null or a clock value)
  countdown,            \* state countdown (Null or 0..5); countdownRef.current mirrors it
  countdownIntervalRef, \* countdownIntervalRef.current (0: null, else the build that set it)
  activeIntervals,      \* intervals created by setInterval and not cleared yet
  showEndScreen,        \* state showEndScreen
  handsShowEndScreen,   \* showEndScreen as captured by the current onResults closure
  audioRef,             \* audioRef.current (NoUrl: null, else the url of the Audio element)
  audioPlaying,         \* the Audio element created by the audio effect is playing
  cameraPc,             \* startCamera: "pending", "granted", "denied"
  stream,               \* state stream is non-null
  error,                \* state error is non-null
  activeStream,         \* closure variable activeStream of the camera effect is non-null
  trackLive,            \* a camera track obtained by getUserMedia is running
  loopPc,               \* detectHands: "off", "raf" (frame requested), "sending" (inference awaited)
  canvas,               \* tiles drawn by the last frame, in drawing order
  now,                  \* performance.now(), 1/100 s
  score,                \* state score
  lastAccepted,         \* hardware adapter: per button, the time of the last accepted press (Null: none)
  pressLog,             \* press events delivered by the hardware channel so far
  position,             \* state position (Null or a pointer value)
  videoReady,           \* the video element has a current frame (readyState 4)
  inFlight,             \* landmark inferences sent and not completed
  cvPc,                 \* colour tracking tick: "off", "timer", "fetch", "json", "stopped"
  cvCancelled,          \* closure variable cancelled of the colour tracking effect
  cvResultRef,          \* cvResultRef.current (Null or a pointer value)
  cvInFlight,           \* /cv/track requests issued and not completed
  cvOutcome,            \* how the last completed tracking tick ended
  page,                 \* App state page: "start", "game" or "songs"
  currentSong,          \* App state currentSong (NoUrl for null)
  startGen,             \* number of StartScreen instances mounted so far
  isStarting,           \* state isStarting of the mounted StartScreen
  startError,           \* the mounted StartScreen shows its error message
  pipelines,            \* handleGenerateSong runs: pc, StartScreen instance, onStart calls
  entryUrl              \* url passed by the call that caused the last entry to the game page

vars == << mounted, audioUrl, builds, nBuilds, tilesRef, tileDisplayTimesRef,
           beatTypesRef, energiesRef, gameEndTimeRef, gameStartTimeRef, countdown,
           countdownIntervalRef, activeIntervals, showEndScreen, handsShowEndScreen,
           audioRef, audioPlaying, cameraPc, stream, error, activeStream, trackLive,
           loopPc, canvas, now, score, lastAccepted, pressLog, position, videoReady,
           inFlight, cvPc, cvCancelled, cvResultRef, cvInFlight, cvOutcome, page,
           currentSong, startGen, isStarting, startError, pipelines, entryUrl >>

scheduleVars == << tilesRef, tileDisplayTimesRef, beatTypesRef, energiesRef, gameEndTimeRef >>
cameraVars == << cameraPc, stream, error, activeStream, trackLive >>
audioVars == << gameStartTimeRef, showEndScreen, handsShowEndScreen, audioRef, audioPlaying >>
timerVars == << countdown, countdownIntervalRef, activeIntervals >>
hardwareVars == << score, lastAccepted, pressLog >>
pointerVars == << position, videoReady, inFlight >>
cvVars == << cvPc, cvCancelled, cvResultRef, cvInFlight, cvOutcome >>
appVars == << page, currentSong, startGen, isStarting, startError, pipelines, entryUrl >>

BuildIds == 1..MaxSessions

\* a build that has not been started
NoBuild == [pc |-> "none", cancelled |-> FALSE, url |-> NoUrl, ok |-> FALSE,
            beatTimestamps |-> <<>>, count |-> 0]

\* a build at its first await (fetch of /beats/create_beats)
NewBuild(u) == [pc |-> "fetchBeat", cancelled |-> FALSE, url |-> u, ok |-> FALSE,
                beatTimestamps |-> <<>>, count |-> 0]

(* ------------------------------------------------------------------ *)
(* The timeline build: pure parts of runBeforeCountdown                 *)
(* ------------------------------------------------------------------ *)
\* the count without the lower bound 1
TileCountNoFloor(beatTimestamps) == Len(beatTimestamps)

\* count = Math.max(1, beatTimestamps.length)
TileCount(beatTimestamps) == Max2(1, Len(beatTimestamps))

\* the fallback counted from 1: 0.5, 1.0, ...
FallbackTimesFromHalf(count) == [i \in 1..count |-> i * FALLBACK_SPACING]

\* Array.from({ length: count }, (_, i) => i * 0.5)
FallbackTimes(count) == [i \in 1..count |-> (i - 1) * FALLBACK_SPACING]

\* beatTimestamps.length > 0 ? [...beatTimestamps] : fallback
DisplayTimes(beatTimestamps, count) ==
  IF Len(beatTimestamps) > 0 THEN beatTimestamps ELSE FallbackTimes(count)

\* the end time taken from the last entry instead of the maximum
EndTimeFromLastEntry(times, old) ==
  IF Len(times) > 0
    THEN times[Len(times)] + TILE_FADE_IN_DURATION + TILE_VISIBLE_DURATION
           + TILE_FADE_OUT_DURATION + END_SCREEN_DELAY
    ELSE old

\* lastTileTime + fade in + visible + fade out + END_SCREEN_DELAY; the cell is
\* left as it is when there is no display time
EndTimeAfterBuild(times, old) ==
  IF Len(times) > 0
    THEN SeqMax(times) + TILE_FADE_IN_DURATION + TILE_VISIBLE_DURATION
           + TILE_FADE_OUT_DURATION + END_SCREEN_DELAY
    ELSE old

\* tilesData.x.map((x, i) => ({ x: x / width, y: tilesData.y[i] / height }))
NormalizeTiles(n) ==
  [i \in 1..n |-> [x |-> (LayoutX(i) * CoordScale) \div WindowWidth,
                   y |-> (LayoutY(i) * CoordScale) \div WindowHeight]]

(* ------------------------------------------------------------------ *)
(* The audio effect (deps [audioUrl, countdown])                        *)
(* ------------------------------------------------------------------ *)
AudioNow == [start |-> gameStartTimeRef, show |-> showEndScreen,
             ref |-> audioRef, playing |-> audioPlaying]

\* the audio effect without its cleanup: a dep change that does not start a
\* new audio leaves the previous one playing
AudioAfterNoCleanup(url2, cd2) ==
  IF (url2 # audioUrl \/ cd2 # countdown) /\ url2 # NoUrl /\ cd2 = 0
    THEN [start |-> now, show |-> FALSE, ref |-> url2, playing |-> TRUE]
    ELSE AudioNow

\* The cells the audio effect owns after a render with the deps (url2, cd2):
\* no change of a dep, no run; else the cleanup of the previous run (if it
\* returned one), then the body.
AudioAfter(url2, cd2) ==
  IF url2 = audioUrl /\ cd2 = countdown THEN AudioNow
  ELSE IF url2 # NoUrl /\ cd2 = 0
    THEN [start |-> now, show |-> FALSE, ref |-> url2, playing |-> TRUE]
  ELSE IF audioRef # NoUrl
    THEN [start |-> Null, show |-> showEndScreen, ref |-> NoUrl, playing |-> FALSE]
  ELSE AudioNow

SetAudio(r) ==
  /\ gameStartTimeRef' = r.start
  /\ showEndScreen' = r.show
  /\ handsShowEndScreen' = r.show
  /\ audioRef' = r.ref
  /\ audioPlaying' = r.playing

\* cleanup of the build effect: cancelled = true of the running build, and
\* clearInterval of the interval the ref holds
CancelBuilds == [b \in BuildIds |->
                   IF b = nBuilds /\ audioUrl # NoUrl
                     THEN [builds[b] EXCEPT !.cancelled = TRUE] ELSE builds[b]]

(* ------------------------------------------------------------------ *)
(* Per-frame tile loop of hands.onResults                               *)
(* ------------------------------------------------------------------ *)
\* times[i] ?? 0
DisplayAt(times, i) == IF i <= Len(times) THEN times[i] ELSE 0

FadeOutStart(displayAt) == displayAt + TILE_FADE_IN_DURATION + TILE_VISIBLE_DURATION

\* the loop without its second `continue`: a tile is never retired
TileDrawnNoExpiry(displayAt, elapsed) ==
  ~(elapsed < displayAt)

\* neither `continue` of the loop is taken
TileDrawn(displayAt, elapsed) ==
  /\ ~(elapsed < displayAt)
  /\ ~(elapsed >= FadeOutStart(displayAt) + TILE_FADE_OUT_DURATION)

\* the opacity with the fade-in progress divided by the fade-out duration
TileOpacityWrongFadeIn(displayAt, elapsed) ==
  IF elapsed < displayAt + TILE_FADE_IN_DURATION
    THEN TILE_BASE_OPACITY * (elapsed - displayAt) * TILE_FADE_IN_DURATION
  ELSE IF elapsed >= FadeOutStart(displayAt)
    THEN TILE_BASE_OPACITY
           * (TILE_FADE_OUT_DURATION
                - Min2(TILE_FADE_OUT_DURATION, elapsed - FadeOutStart(displayAt)))
           * TILE_FADE_IN_DURATION
  ELSE TILE_BASE_OPACITY * TILE_FADE_IN_DURATION * TILE_FADE_OUT_DURATION

\* opacity of a drawn tile, numerator over OpacityScale
TileOpacity(displayAt, elapsed) ==
  IF elapsed < displayAt + TILE_FADE_IN_DURATION
    THEN TILE_BASE_OPACITY * (elapsed - displayAt) * TILE_FADE_OUT_DURATION
  ELSE IF elapsed >= FadeOutStart(displayAt)
    THEN TILE_BASE_OPACITY
           * (TILE_FADE_OUT_DURATION
                - Min2(TILE_FADE_OUT_DURATION, elapsed - FadeOutStart(displayAt)))
           * TILE_FADE_IN_DURATION
  ELSE TILE_BASE_OPACITY * TILE_FADE_IN_DURATION * TILE_FADE_OUT_DURATION

\* energyRange = maxE - minE || 1, minE and maxE defaulting to 0 and 1
EnergyMin(energies) == IF Len(energies) > 0 THEN SeqMin(energies) ELSE 0
EnergyMax(energies) == IF Len(energies) > 0 THEN SeqMax(energies) ELSE 1
\* the range without its `|| 1` default
EnergyRangeNoDefault(energies) ==
  EnergyMax(energies) - EnergyMin(energies)

EnergyRange(energies) ==
  IF EnergyMax(energies) - EnergyMin(energies) = 0 THEN 1
  ELSE EnergyMax(energies) - EnergyMin(energies)

\* energies[i] != null ? (energies[i] - minE) / energyRange : 0.5, as num/den
EnergyNorm(energies, i) ==
  IF i <= Len(energies)
    THEN [num |-> energies[i] - EnergyMin(energies), den |-> EnergyRange(energies)]
    ELSE [num |-> 1, den |-> 2]

\* beatTypes[i] === "high"
IsHigh(beatTypes, i) == i <= Len(beatTypes) /\ beatTypes[i] = "high"

\* a tile loop that reads the pointer: a tile is drawn transparent while a
\* hand is published
TileDrawUnderPointer(i, elapsed) ==
  [tile |-> i,
   opacity |-> IF position = Null
                 THEN TileOpacity(DisplayAt(tileDisplayTimesRef, i), elapsed)
                 ELSE 0,
   energyNorm |-> EnergyNorm(energiesRef, i),
   high |-> IsHigh(beatTypesRef, i)]

\* what the loop draws for tile i at `elapsed`
TileDraw(i, elapsed) ==
  [tile |-> i,
   opacity |-> TileOpacity(DisplayAt(tileDisplayTimesRef, i), elapsed),
   energyNorm |-> EnergyNorm(energiesRef, i),
   high |-> IsHigh(beatTypesRef, i)]

\* the tiles drawn by one frame, in index order
DrawTiles(elapsed) ==
  LET all == [i \in 1..Len(tilesRef) |-> TileDraw(i, elapsed)]
  IN SelectSeq(all, LAMBDA d : TileDrawn(DisplayAt(tileDisplayTimesRef, d.tile), elapsed))

\* guard of the tile block: the session is playing
FramePlaying == countdown = 0 /\ Len(tilesRef) > 0 /\ gameStartTimeRef # Null

\* the end check without the comparison of elapsed with the end time
EndReachedNoCompare(elapsed) ==
  gameEndTimeRef # Null /\ ~handsShowEndScreen

\* guard of the end check at elapsed
EndReached(elapsed) ==
  gameEndTimeRef # Null /\ elapsed >= gameEndTimeRef /\ ~handsShowEndScreen

\* pointer values the adapters publish
Positions == {1}

\* what an inference finds: the wrist of a hand, or no hand
HandResults == Positions \cup {Null}

\* setPosition(wrist) with a hand in the results, setPosition(null) without
PublishPosition(hand) == position' = hand

\* a frame callback that stops the session clock when it ends the session
OnResultsStopsClock(t) ==
  LET elapsed == t - gameStartTimeRef IN
  /\ IF FramePlaying
       THEN /\ canvas' = DrawTiles(elapsed)
            /\ IF EndReached(elapsed)
                 THEN /\ showEndScreen' = TRUE
                      /\ handsShowEndScreen' = TRUE
                      /\ audioPlaying' = IF audioRef # NoUrl THEN FALSE ELSE audioPlaying
                      /\ gameStartTimeRef' = Null
                 ELSE UNCHANGED << showEndScreen, handsShowEndScreen, audioPlaying,
                                   gameStartTimeRef >>
       ELSE /\ canvas' = << >>
            /\ UNCHANGED << showEndScreen, handsShowEndScreen, audioPlaying, gameStartTimeRef >>
  /\ UNCHANGED audioRef

\* hands.onResults with performance.now() = t (the canvas exists: the
\* component is mounted with a stream and no error)
OnResults(t) ==
  LET elapsed == t - gameStartTimeRef IN
  /\ IF FramePlaying
       THEN /\ canvas' = DrawTiles(elapsed)
            /\ IF EndReached(elapsed)
                 THEN /\ showEndScreen' = TRUE
                      /\ handsShowEndScreen' = TRUE
                      /\ audioPlaying' = IF audioRef # NoUrl THEN FALSE ELSE audioPlaying
                 ELSE UNCHANGED << showEndScreen, handsShowEndScreen, audioPlaying >>
       ELSE /\ canvas' = << >>
            /\ UNCHANGED << showEndScreen, handsShowEndScreen, audioPlaying >>
  /\ UNCHANGED << gameStartTimeRef, audioRef >>

(* ------------------------------------------------------------------ *)
(* App (App.tsx): the page, the current song and the StartScreen that   *)
(* the start page mounts                                                *)
(* ------------------------------------------------------------------ *)
PipelineIds == 1..MaxPipelines

NoPipeline == [pc |-> "none", inst |-> 0, calls |-> 0]

\* setPage("start") from the game or songs page: the page's component
\* unmounts and a new StartScreen mounts with isStarting false and no error
AppBackToStart ==
  /\ startGen < MaxStartInstances
  /\ page' = "start"
  /\ startGen' = startGen + 1
  /\ isStarting' = FALSE
  /\ startError' = FALSE
  /\ UNCHANGED << currentSong, pipelines, entryUrl >>

(* ------------------------------------------------------------------ *)
(* Initial state: the component has been mounted and its effects ran    *)
(* ------------------------------------------------------------------ *)
Init ==
  /\ mounted = TRUE
  /\ audioUrl \in {NoUrl, "songA"}
  /\ nBuilds = IF audioUrl = NoUrl THEN 0 ELSE 1
  /\ builds = [b \in BuildIds |-> IF b = 1 /\ audioUrl # NoUrl THEN NewBuild(audioUrl) ELSE NoBuild]
  /\ tilesRef = << >>
  /\ tileDisplayTimesRef = << >>
  /\ beatTypesRef = << >>
  /\ energiesRef = << >>
  /\ gameEndTimeRef = Null
  /\ gameStartTimeRef = Null
  /\ countdown = Null
  /\ countdownIntervalRef = 0
  /\ activeIntervals = {}
  /\ showEndScreen = FALSE
  /\ handsShowEndScreen = FALSE
  /\ audioRef = NoUrl
  /\ audioPlaying = FALSE
  /\ cameraPc = "pending"
  /\ stream = FALSE
  /\ error = FALSE
  /\ activeStream = FALSE
  /\ trackLive = FALSE
  /\ loopPc = "off"
  /\ canvas = << >>
  /\ now = 0
  /\ score = 0
  /\ lastAccepted = [k \in Buttons |-> Null]
  /\ pressLog = << >>
  /\ position = Null
  /\ videoReady = FALSE
  /\ inFlight = 0
  /\ cvPc = "off"
  /\ cvCancelled = FALSE
  /\ cvResultRef = Null
  /\ cvInFlight = 0
  /\ cvOutcome = "none"
  /\ page = "game"
  /\ currentSong = audioUrl
  /\ startGen = 0
  /\ isStarting = FALSE
  /\ startError = FALSE
  /\ pipelines = [k \in PipelineIds |-> NoPipeline]
  /\ entryUrl = audioUrl

(* ------------------------------------------------------------------ *)
(* The clock                                                           *)
(* ------------------------------------------------------------------ *)
Tick(dt) ==
  /\ mounted
  /\ now + dt <= MaxNow
  /\ gameStartTimeRef = Null => now + dt <= MaxIdleNow
  /\ now' = now + dt
  /\ UNCHANGED << mounted, audioUrl, builds, nBuilds, scheduleVars, audioVars, timerVars,
                  cameraVars, loopPc, canvas >>
  /\ UNCHANGED hardwareVars
  /\ UNCHANGED << pointerVars, cvVars >>
  /\ UNCHANGED appVars

(* ------------------------------------------------------------------ *)
(* runBeforeCountdown, one action per await                             *)
(* ------------------------------------------------------------------ *)
\* the function has ended (returned or thrown): its locals are gone
Ended(b, pc2) == [NoBuild EXCEPT !.pc = pc2, !.url = builds[b].url,
                                 !.cancelled = builds[b].cancelled]

BuildStep(b, pc2) ==
  builds' = [builds EXCEPT ![b] = IF pc2 \in {"threw", "returned"}
                                    THEN Ended(b, pc2)
                                    ELSE [builds[b] EXCEPT !.pc = pc2]]

\* only the build record changes
OnlyBuilds ==
  /\ UNCHANGED << mounted, audioUrl, nBuilds, scheduleVars, audioVars, timerVars, cameraVars,
               loopPc, canvas, now >>
  /\ UNCHANGED hardwareVars
  /\ UNCHANGED << pointerVars, cvVars >>
  /\ UNCHANGED appVars

\* await fetch(/beats/create_beats) resolves with status ok or not
BeatFetchResolves(b, ok) ==
  /\ builds[b].pc = "fetchBeat"
  /\ builds' = [builds EXCEPT ![b] =
                   IF builds[b].cancelled THEN Ended(b, "returned")
                   ELSE [builds[b] EXCEPT !.ok = ok,
                                          !.pc = IF ok THEN "jsonBeat" ELSE "textBeat"]]
  /\ OnlyBuilds

\* await fetch(/beats/create_beats) rejects: the async function throws
BeatFetchRejects(b) ==
  /\ builds[b].pc = "fetchBeat"
  /\ BuildStep(b, "threw")
  /\ OnlyBuilds

\* the timeline is stored and the layout request is issued
StoreTimeline(b, timestamps, types, energies) ==
  /\ builds' = [builds EXCEPT ![b].beatTimestamps = timestamps,
                              ![b].count = TileCount(timestamps),
                              ![b].pc = "fetchTiles"]
  /\ beatTypesRef' = types
  /\ energiesRef' = energies
  /\ UNCHANGED << mounted, audioUrl, nBuilds, tilesRef, tileDisplayTimesRef, gameEndTimeRef,
                  audioVars, timerVars, cameraVars, loopPc, canvas, now >>
  /\ UNCHANGED hardwareVars
  /\ UNCHANGED << pointerVars, cvVars >>
  /\ UNCHANGED appVars

\* await beatMapRes.json() resolves
BeatJsonResolves(b, body) ==
  /\ builds[b].pc = "jsonBeat"
  /\ StoreTimeline(b, body.timestamps, body.types, body.energies)

\* await beatMapRes.json() rejects (the body is not JSON)
BeatJsonRejects(b) ==
  /\ builds[b].pc = "jsonBeat"
  /\ BuildStep(b, "threw")
  /\ OnlyBuilds

\* status not ok: await beatMapRes.text() resolves, the timeline is the empty one
BeatTextResolves(b) ==
  /\ builds[b].pc = "textBeat"
  /\ StoreTimeline(b, << >>, << >>, << >>)

\* status not ok and the body cannot be read
BeatTextRejects(b) ==
  /\ builds[b].pc = "textBeat"
  /\ BuildStep(b, "threw")
  /\ OnlyBuilds

\* await fetch(/tiles/generate) resolves (the status is not looked at)
TilesFetchResolves(b) ==
  /\ builds[b].pc = "fetchTiles"
  /\ BuildStep(b, IF builds[b].cancelled THEN "returned" ELSE "jsonTiles")
  /\ OnlyBuilds

\* await fetch(/tiles/generate) rejects
TilesFetchRejects(b) ==
  /\ builds[b].pc = "fetchTiles"
  /\ BuildStep(b, "threw")
  /\ OnlyBuilds

\* await tilesRes.json() rejects, or the body has no array x: the map throws
TilesJsonUnusable(b) ==
  /\ builds[b].pc = "jsonTiles"
  /\ BuildStep(b, "threw")
  /\ OnlyBuilds

\* await tilesRes.json() resolves with n tiles: the schedule is written, then,
\* unless cancelled, setCountdown(5) and setInterval
TilesJsonResolves(b, n) ==
  LET times == DisplayTimes(builds[b].beatTimestamps, builds[b].count) IN
  /\ builds[b].pc = "jsonTiles"
  /\ tilesRef' = NormalizeTiles(n)
  /\ tileDisplayTimesRef' = times
  /\ gameEndTimeRef' = EndTimeAfterBuild(times, gameEndTimeRef)
  /\ IF builds[b].cancelled
       THEN /\ BuildStep(b, "returned")
            /\ UNCHANGED << audioVars, timerVars >>
       ELSE /\ BuildStep(b, "done")
            /\ countdown' = COUNTDOWN_START
            /\ activeIntervals' = activeIntervals \cup {b}
            /\ countdownIntervalRef' = b
            /\ SetAudio(AudioAfter(audioUrl, COUNTDOWN_START))
  /\ UNCHANGED << mounted, audioUrl, nBuilds, beatTypesRef, energiesRef, cameraVars,
                  loopPc, canvas, now >>
  /\ UNCHANGED hardwareVars
  /\ UNCHANGED << pointerVars, cvVars >>
  /\ UNCHANGED appVars

(* ------------------------------------------------------------------ *)
(* The countdown interval                                              *)
(* ------------------------------------------------------------------ *)
\* the updater passed to setCountdown by the interval callback
CountdownUpdater(prev) == IF prev = Null \/ prev <= 1 THEN 0 ELSE prev - 1

\* the interval cleared one tick late, when the updater sees 0
CountdownDoneAtZero(prev) == prev = Null \/ prev <= 0

\* the updater clears its interval when it produces 0
CountdownDone(prev) == prev = Null \/ prev <= 1

\* one firing of interval i (created by build i)
CountdownTick(i) ==
  /\ i \in activeIntervals
  /\ countdown' = CountdownUpdater(countdown)
  /\ IF CountdownDone(countdown)
       THEN activeIntervals' = activeIntervals \ {i} /\ countdownIntervalRef' = 0
       ELSE UNCHANGED << activeIntervals, countdownIntervalRef >>
  /\ SetAudio(AudioAfter(audioUrl, CountdownUpdater(countdown)))
  /\ UNCHANGED << mounted, audioUrl, builds, nBuilds, scheduleVars, cameraVars,
                  loopPc, canvas, now >>
  /\ UNCHANGED hardwareVars
  /\ UNCHANGED << pointerVars, cvVars >>
  /\ UNCHANGED appVars

(* ------------------------------------------------------------------ *)
(* The build effect (deps [audioUrl]) on a change of the prop           *)
(* ------------------------------------------------------------------ *)
\* the cleanup without its clearInterval
IntervalsAfterCleanupNoClear == activeIntervals

\* intervals left after the cleanup's clearInterval(countdownIntervalRef.current)
IntervalsAfterCleanup ==
  IF audioUrl # NoUrl /\ countdownIntervalRef # 0
    THEN activeIntervals \ {countdownIntervalRef} ELSE activeIntervals

IntervalRefAfterCleanup == IF audioUrl # NoUrl THEN 0 ELSE countdownIntervalRef

\* The parent passes another audioUrl: cleanups of the build and the audio
\* effect, then the build effect (reset without a url, a new build with one)
\* and the audio effect with the new deps.
SetAudioUrl(u) ==
  /\ mounted
  /\ u # audioUrl
  /\ audioUrl' = u
  /\ activeIntervals' = IntervalsAfterCleanup
  /\ countdownIntervalRef' = IntervalRefAfterCleanup
  /\ IF u = NoUrl
       THEN /\ builds' = CancelBuilds
            /\ nBuilds' = nBuilds
            /\ countdown' = Null
            /\ tilesRef' = << >>
            /\ tileDisplayTimesRef' = << >>
            /\ beatTypesRef' = << >>
            /\ energiesRef' = << >>
            /\ gameEndTimeRef' = Null
            /\ SetAudio([AudioAfter(NoUrl, Null) EXCEPT !.show = FALSE])
       ELSE /\ builds' = [CancelBuilds EXCEPT ![nBuilds + 1] = NewBuild(u)]
            /\ nBuilds' = nBuilds + 1
            /\ countdown' = countdown
            /\ UNCHANGED scheduleVars
            /\ SetAudio(AudioAfter(u, countdown))
  /\ UNCHANGED << mounted, cameraVars, loopPc, canvas, now >>
  /\ UNCHANGED hardwareVars
  /\ UNCHANGED << pointerVars, cvVars >>

\* a change of the prop, at most MaxBuilds builds in all
ChangeAudioUrl(u) ==
  /\ u # NoUrl => nBuilds < MaxBuilds
  /\ SetAudioUrl(u)
  /\ currentSong' = u
  /\ UNCHANGED << page, startGen, isStarting, startError, pipelines, entryUrl >>

\* a change of the prop, at most MaxSessions builds in all
ReplaceAudioUrl(u) ==
  /\ u # NoUrl => nBuilds < MaxSessions
  /\ SetAudioUrl(u)
  /\ currentSong' = u
  /\ UNCHANGED << page, startGen, isStarting, startError, pipelines, entryUrl >>

(* ------------------------------------------------------------------ *)
(* Camera start (startCamera) and the frame loop (detectHands)          *)
(* ------------------------------------------------------------------ *)
\* getUserMedia resolves: activeStream is assigned, setStream; the frame
\* effect starts and requests its first frame (the video is not ready yet)
CameraGranted ==
  /\ cameraPc = "pending"
  /\ cameraPc' = "granted"
  /\ activeStream' = TRUE
  /\ trackLive' = TRUE
  /\ stream' = mounted
  /\ loopPc' = IF mounted THEN "raf" ELSE loopPc
  /\ videoReady' = mounted
  /\ UNCHANGED << mounted, audioUrl, builds, nBuilds, scheduleVars, audioVars, timerVars,
                  error, canvas, now >>
  /\ UNCHANGED << hardwareVars, position, inFlight, cvVars >>
  /\ UNCHANGED appVars

\* getUserMedia rejects: setError
CameraDenied ==
  /\ cameraPc = "pending"
  /\ cameraPc' = "denied"
  /\ error' = mounted
  /\ UNCHANGED << mounted, audioUrl, builds, nBuilds, scheduleVars, audioVars, timerVars,
                  stream, activeStream, trackLive, loopPc, canvas, now >>
  /\ UNCHANGED hardwareVars
  /\ UNCHANGED << pointerVars, cvVars >>
  /\ UNCHANGED appVars

\* the next frame requested before the inference is awaited
LoopAfterSendEager == "raf"

\* detectHands awaits the inference before it requests the next frame
LoopAfterSend == "sending"

\* the requested animation frame fires with the video ready (readyState 4):
\* the image is sent to the landmark model (with no current frame the
\* callback only requests the next frame, which changes nothing)
FrameRequested ==
  /\ loopPc = "raf"
  /\ mounted
  /\ videoReady
  /\ inFlight < MaxInFlight
  /\ loopPc' = LoopAfterSend
  /\ inFlight' = inFlight + 1
  /\ UNCHANGED << mounted, audioUrl, builds, nBuilds, scheduleVars, audioVars, timerVars,
                  cameraVars, canvas, now >>
  /\ UNCHANGED << hardwareVars, position, videoReady, cvVars >>
  /\ UNCHANGED appVars

\* await hands.send resolves: onResults has run, the next frame is requested
InferenceDone ==
  /\ loopPc = "sending"
  /\ loopPc' = "raf"
  /\ inFlight' = inFlight - 1
  /\ IF mounted
       THEN OnResults(now) /\ \E hand \in HandResults : PublishPosition(hand)
       ELSE UNCHANGED << audioVars, canvas, position >>
  /\ UNCHANGED << mounted, audioUrl, builds, nBuilds, scheduleVars, timerVars,
                  cameraVars, now >>
  /\ UNCHANGED << hardwareVars, videoReady, cvVars >>
  /\ UNCHANGED appVars

\* await hands.send rejects after hands.close(): detectHands throws and
\* requests no further frame
InferenceFails ==
  /\ loopPc = "sending"
  /\ ~mounted
  /\ loopPc' = "off"
  /\ inFlight' = inFlight - 1
  /\ UNCHANGED << mounted, audioUrl, builds, nBuilds, scheduleVars, audioVars, timerVars,
                  cameraVars, canvas, now >>
  /\ UNCHANGED << hardwareVars, position, videoReady, cvVars >>
  /\ UNCHANGED appVars

\* the camera stops delivering frames: the video has no current frame any more
CameraStalls ==
  /\ mounted
  /\ stream
  /\ videoReady
  /\ videoReady' = FALSE
  /\ UNCHANGED << mounted, audioUrl, builds, nBuilds, scheduleVars, audioVars, timerVars,
                  cameraVars, loopPc, canvas, now >>
  /\ UNCHANGED << hardwareVars, position, inFlight, cvVars >>
  /\ UNCHANGED appVars

(* ------------------------------------------------------------------ *)
(* Unmount: the cleanup of every effect                                 *)
(* ------------------------------------------------------------------ *)
Unmount ==
  /\ mounted
  /\ mounted' = FALSE
  /\ builds' = CancelBuilds
  /\ activeIntervals' = IntervalsAfterCleanup
  /\ countdownIntervalRef' = IntervalRefAfterCleanup
  /\ IF audioRef # NoUrl
       THEN /\ gameStartTimeRef' = Null
            /\ audioRef' = NoUrl
            /\ audioPlaying' = FALSE
       ELSE UNCHANGED << gameStartTimeRef, audioRef, audioPlaying >>
  /\ loopPc' = IF loopPc = "raf" THEN "off" ELSE loopPc
  /\ trackLive' = IF activeStream THEN FALSE ELSE trackLive
  /\ UNCHANGED << audioUrl, nBuilds, scheduleVars, countdown, showEndScreen,
                  handsShowEndScreen, cameraPc, stream, error, activeStream, canvas, now >>
  /\ UNCHANGED hardwareVars
  /\ UNCHANGED << pointerVars, cvVars >>
  /\ AppBackToStart

(* ------------------------------------------------------------------ *)
(* The specification                                                   *)
(* ------------------------------------------------------------------ *)
\* the steps of the builds, the beat service answering with a body of `bodies`
BuildActions(bodies) ==
  \E b \in BuildIds :
    \/ \E ok \in BOOLEAN : BeatFetchResolves(b, ok)
    \/ BeatFetchRejects(b)
    \/ \E body \in bodies : BeatJsonResolves(b, body)
    \/ BeatJsonRejects(b)
    \/ BeatTextResolves(b)
    \/ BeatTextRejects(b)
    \/ TilesFetchResolves(b)
    \/ TilesFetchRejects(b)
    \/ \E n \in LayoutLens(builds[b].count) : TilesJsonResolves(b, n)
    \/ TilesJsonUnusable(b)

BuildNext == BuildActions(BeatBodies)

Next ==
  \/ \E dt \in TickSteps : Tick(dt)
  \/ BuildNext
  \/ \E i \in BuildIds : CountdownTick(i)
  \/ \E u \in AudioUrls \cup {NoUrl} : ChangeAudioUrl(u)
  \/ CameraGranted
  \/ CameraDenied
  \/ FrameRequested
  \/ InferenceDone
  \/ InferenceFails
  \/ Unmount

Spec == Init /\ [][Next]_vars

\* Fairness of the browser's scheduling: time passes, a requested animation
\* frame fires, an awaited inference completes, an active interval fires, and
\* the camera prompt is answered.
FairSpec ==
  /\ Init /\ [][Next]_vars
  /\ WF_vars(\E dt \in TickSteps : Tick(dt))
  /\ WF_vars(FrameRequested)
  /\ WF_vars(InferenceDone)
  /\ WF_vars(\E i \in BuildIds : CountdownTick(i))
  /\ WF_vars(CameraGranted \/ CameraDenied)

(* ------------------------------------------------------------------ *)
(* The builder alone, over every timeline of up to MaxBeats beats       *)
(* ------------------------------------------------------------------ *)
MaxBeats == 3
BeatTimes == {0, 100, 200}

SeqsUpTo(S, n) == UNION {[1..k -> S] : k \in 0..n}

WideBeatBodies ==
  [timestamps : SeqsUpTo(BeatTimes, MaxBeats),
   types : {<< >>, <<"high">>, <<"low", "high", "low">>},
   energies : {<< >>, <<2, 2, 2>>, <<1, 3, 2>>}]

BuildOnlyNext == BuildActions(WideBeatBodies)

BuildSpec == Init /\ [][BuildOnlyNext]_vars

(* ------------------------------------------------------------------ *)
(* Sessions that replace one another: the parent passes another url     *)
(* to the mounted component                                             *)
(* ------------------------------------------------------------------ *)
ReplaceBodies ==
  {[timestamps |-> <<0, 100, 200>>, types |-> <<"low", "high", "low">>, energies |-> <<1, 3, 2>>]}

ReplaceInit == Init /\ audioUrl = "songA"

ReplaceNext ==
  \/ \E dt \in TickSteps : Tick(dt)
  \/ BuildActions(ReplaceBodies)
  \/ \E i \in BuildIds : CountdownTick(i)
  \/ \E u \in AudioUrls : ReplaceAudioUrl(u)
  \/ CameraGranted
  \/ CameraDenied
  \/ FrameRequested
  \/ InferenceDone
  \/ InferenceFails
  \/ Unmount

ReplaceSpec == ReplaceInit /\ [][ReplaceNext]_vars

(* ------------------------------------------------------------------ *)
(* The hardware controller: press events of the button channel, their   *)
(* debounce and the score                                               *)
(* ------------------------------------------------------------------ *)
\* refractory window of a button, 80 ms
REFRACTORY_WINDOW == 8

\* times between two events of the channel: 30 ms and 100 ms
PressGaps == {3, 10}

\* the session is in play: the countdown is over, the clock runs, not ended
Scoring == countdown = 0 /\ gameStartTimeRef # Null /\ ~showEndScreen

\* every press is accepted
PressAcceptedNoWindow(last, t) == TRUE

\* a press at t is accepted unless it falls inside the refractory window of the
\* previous accepted press of the same button
PressAccepted(last, t) == last = Null \/ t - last >= REFRACTORY_WINDOW

\* an accepted press scores whatever the state of the session
ScoreAfterPressAnyState(playing, s) == s + 1

\* an accepted press scores only while the session is in play
ScoreAfterPress(playing, s) == IF playing THEN s + 1 ELSE s

\* a press event of button k arrives
HardwarePress(k) ==
  /\ mounted
  /\ Len(pressLog) < MaxPresses
  /\ pressLog' = Append(pressLog, [button |-> k, at |-> now, playing |-> Scoring])
  /\ IF PressAccepted(lastAccepted[k], now)
       THEN /\ lastAccepted' = [lastAccepted EXCEPT ![k] = now]
            /\ score' = ScoreAfterPress(Scoring, score)
       ELSE UNCHANGED << lastAccepted, score >>
  /\ UNCHANGED << mounted, audioUrl, builds, nBuilds, scheduleVars, audioVars, timerVars,
                  cameraVars, loopPc, canvas, now >>
  /\ UNCHANGED << pointerVars, cvVars >>
  /\ UNCHANGED appVars

HardwareNext ==
  \/ \E dt \in PressGaps : now + dt <= MaxPressNow /\ Tick(dt)
  \/ BuildActions(ReplaceBodies)
  \/ \E i \in BuildIds : CountdownTick(i)
  \/ \E k \in Buttons : HardwarePress(k)

HardwareSpec == ReplaceInit /\ [][HardwareNext]_vars

(* ------------------------------------------------------------------ *)
(* The renderer alone: a playing session, one frame after the other     *)
(* ------------------------------------------------------------------ *)
\* schedules a build can have written: display times (possibly unordered, possibly
\* fewer than tiles), energies and types of any length
RenderTimes == {<<0>>, <<3>>, <<3, 0>>}
RenderTileCounts == {1, 2}
RenderEnergies == {<< >>, <<2>>, <<2, 2>>, <<1, 3>>, <<3, 0>>}
RenderTypes == {<< >>, <<"high">>, <<"low", "high">>}
\* clock steps between two frames
RenderSteps == {1, 3}

\* a session at the instant of its first frame: the build is done, the
\* countdown has reached 0, the camera delivers frames
RenderInit ==
  /\ mounted = TRUE
  /\ audioUrl = "songA"
  /\ nBuilds = 1
  /\ tileDisplayTimesRef \in RenderTimes
  /\ \E n \in RenderTileCounts : tilesRef = NormalizeTiles(n)
  /\ energiesRef \in RenderEnergies
  /\ beatTypesRef \in RenderTypes
  /\ builds = [b \in BuildIds |->
                 IF b = 1 THEN [pc |-> "done", cancelled |-> FALSE, url |-> "songA", ok |-> TRUE,
                                beatTimestamps |-> tileDisplayTimesRef,
                                count |-> TileCount(tileDisplayTimesRef)]
                 ELSE NoBuild]
  /\ gameEndTimeRef = EndTimeAfterBuild(tileDisplayTimesRef, Null)
  /\ gameStartTimeRef = 0
  /\ countdown = 0
  /\ countdownIntervalRef = 0
  /\ activeIntervals = {}
  /\ showEndScreen = FALSE
  /\ handsShowEndScreen = FALSE
  /\ audioRef = "songA"
  /\ audioPlaying = TRUE
  /\ cameraPc = "granted"
  /\ stream = TRUE
  /\ error = FALSE
  /\ activeStream = TRUE
  /\ trackLive = TRUE
  /\ loopPc = "raf"
  /\ now = 0
  /\ position = Null
  /\ canvas = DrawTiles(0)
  /\ score = 0
  /\ lastAccepted = [k \in Buttons |-> Null]
  /\ pressLog = << >>
  /\ videoReady = TRUE
  /\ inFlight = 0
  /\ cvPc = "off"
  /\ cvCancelled = FALSE
  /\ cvResultRef = Null
  /\ cvInFlight = 0
  /\ cvOutcome = "none"
  /\ page = "game"
  /\ currentSong = "songA"
  /\ startGen = 0
  /\ isStarting = FALSE
  /\ startError = FALSE
  /\ pipelines = [k \in PipelineIds |-> NoPipeline]
  /\ entryUrl = "songA"

\* the next frame: dt later the inference of the requested frame completes
\* and onResults runs
FrameAfter(dt) ==
  /\ now + dt - gameStartTimeRef <= MaxRenderElapsed
  /\ now' = now + dt
  /\ OnResults(now + dt)
  /\ \E hand \in HandResults : PublishPosition(hand)
  /\ UNCHANGED << mounted, audioUrl, builds, nBuilds, scheduleVars, timerVars,
                  cameraVars, loopPc >>
  /\ UNCHANGED << hardwareVars, videoReady, inFlight, cvVars >>
  /\ UNCHANGED appVars

RenderNext == \E dt \in RenderSteps : FrameAfter(dt)

RenderSpec == RenderInit /\ [][RenderNext]_vars

\* the hand-landmark variant with a camera that can stop delivering frames
PointerNext ==
  \/ Next
  \/ CameraStalls

PointerSpec == Init /\ [][PointerNext]_vars

(* ------------------------------------------------------------------ *)
(* Tile geometry: centres and radii as the tile loop draws them, for    *)
(* layout responses that keep the requested spacing                     *)
(* ------------------------------------------------------------------ *)
\* ENERGY_RADIUS_SCALE = 0.6, in tenths
ENERGY_RADIUS_SCALE == 6
RadiusScaleDen == 10

\* squared pixel distance of two points
DistSq(p, q) == (p.x - q.x) * (p.x - q.x) + (p.y - q.y) * (p.y - q.y)

\* what the request asks of the response: every two tiles within TILE_WINDOW
\* indices of each other are at least `radius` = TILE_SPACING_RADIUS apart
SpacedLayout(layout) ==
  \A i, j \in 1..Len(layout) :
    (i < j /\ j - i <= TILE_WINDOW)
      => DistSq(layout[i], layout[j]) >= TILE_SPACING_RADIUS * TILE_SPACING_RADIUS

\* pixel layouts a response may hold
GeoCandidates ==
  { << [x |-> 100, y |-> 300], [x |-> 240, y |-> 300] >>,
    << [x |-> 100, y |-> 300], [x |-> 100, y |-> 450] >>,
    << [x |-> 100, y |-> 300], [x |-> 330, y |-> 300] >>,
    << [x |-> 100, y |-> 300], [x |-> 160, y |-> 300] >> }

GeoLayouts == {layout \in GeoCandidates : SpacedLayout(layout)}

GeoEnergies == {<< >>, <<2, 2>>, <<1, 3>>}

\* tilesData.x.map((x, i) => ({ x: x / width, y: tilesData.y[i] / height }))
\* for a response holding `layout`
NormalizeLayout(layout) ==
  [i \in 1..Len(layout) |-> [x |-> (layout[i].x * CoordScale) \div WindowWidth,
                             y |-> (layout[i].y * CoordScale) \div WindowHeight]]

\* cx = (1 - tiles[i].x) * w, cy = tiles[i].y * h on a canvas of the
\* requested width and height
TileCentre(tile) ==
  [x |-> ((CoordScale - tile.x) * WindowWidth) \div CoordScale,
   y |-> (tile.y * WindowHeight) \div CoordScale]

\* radius = TILE_RADIUS * (1 + energyNorm * ENERGY_RADIUS_SCALE), as num/den
\* (TILE_RADIUS is a multiple of RadiusScaleDen, so the tenths cancel exactly)
TileRadius(energyNorm) ==
  [num |-> (TILE_RADIUS \div RadiusScaleDen)
             * (RadiusScaleDen * energyNorm.den + ENERGY_RADIUS_SCALE * energyNorm.num),
   den |-> energyNorm.den]

GeometryInit ==
  /\ mounted = TRUE
  /\ audioUrl = "songA"
  /\ nBuilds = 1
  /\ tileDisplayTimesRef = <<3, 0>>
  /\ \E layout \in GeoLayouts : tilesRef = NormalizeLayout(layout)
  /\ energiesRef \in GeoEnergies
  /\ beatTypesRef = <<"low", "high">>
  /\ builds = [b \in BuildIds |->
                 IF b = 1 THEN [pc |-> "done", cancelled |-> FALSE, url |-> "songA", ok |-> TRUE,
                                beatTimestamps |-> tileDisplayTimesRef,
                                count |-> TileCount(tileDisplayTimesRef)]
                 ELSE NoBuild]
  /\ gameEndTimeRef = EndTimeAfterBuild(tileDisplayTimesRef, Null)
  /\ gameStartTimeRef = 0
  /\ countdown = 0
  /\ countdownIntervalRef = 0
  /\ activeIntervals = {}
  /\ showEndScreen = FALSE
  /\ handsShowEndScreen = FALSE
  /\ audioRef = "songA"
  /\ audioPlaying = TRUE
  /\ cameraPc = "granted"
  /\ stream = TRUE
  /\ error = FALSE
  /\ activeStream = TRUE
  /\ trackLive = TRUE
  /\ loopPc = "raf"
  /\ now = 0
  /\ position = Null
  /\ canvas = DrawTiles(0)
  /\ score = 0
  /\ lastAccepted = [k \in Buttons |-> Null]
  /\ pressLog = << >>
  /\ videoReady = TRUE
  /\ inFlight = 0
  /\ cvPc = "off"
  /\ cvCancelled = FALSE
  /\ cvResultRef = Null
  /\ cvInFlight = 0
  /\ cvOutcome = "none"
  /\ page = "game"
  /\ currentSong = "songA"
  /\ startGen = 0
  /\ isStarting = FALSE
  /\ startError = FALSE
  /\ pipelines = [k \in PipelineIds |-> NoPipeline]
  /\ entryUrl = "songA"

GeometrySpec == GeometryInit /\ [][RenderNext]_vars

(* ------------------------------------------------------------------ *)
(* The colour tracking adapter (unnamed/part_002 lines 262-353): an     *)
(* async tick that posts a camera frame to /cv/track, publishes the     *)
(* answer and re-arms its own timer                                     *)
(* ------------------------------------------------------------------ *)
\* tracking ticks the model lets be in progress
MaxCvInFlight == 2

\* what /cv/track answers: the centre of the blob, or found = false
CvResults == Positions \cup {Null}

\* the failure branch leaves the last published value in place
CvKeepOnFailure(prev) == prev

\* the value published when the request fails or nothing is found:
\* setPosition(null), cvResultRef.current = null
CvAfterFailure(prev) == Null

\* the next tick armed as soon as the request is issued
CvPcAfterRequestEager == "timer"

\* the tick awaits the request; setTimeout(tick) is its last statement
CvPcAfterRequest == "fetch"

\* setPosition(p): React drops the update of an unmounted component
CvSetPosition(p) == position' = IF mounted THEN p ELSE position

\* getUserMedia resolves: setStream runs the tracking effect, which calls tick()
CvCameraGranted ==
  /\ cameraPc = "pending"
  /\ cameraPc' = "granted"
  /\ activeStream' = TRUE
  /\ trackLive' = TRUE
  /\ stream' = mounted
  /\ videoReady' = mounted
  /\ cvPc' = IF mounted THEN "timer" ELSE cvPc
  /\ UNCHANGED << mounted, audioUrl, builds, nBuilds, scheduleVars, audioVars, timerVars,
                  error, loopPc, canvas, now >>
  /\ UNCHANGED << hardwareVars, position, inFlight, cvCancelled, cvResultRef,
                  cvInFlight, cvOutcome >>
  /\ UNCHANGED appVars

\* tick() runs: it returns at once when cancelled, otherwise captures the
\* frame and issues the request (the throttle and readyState branches only
\* re-arm the timer)
CvTickFires ==
  /\ cvPc = "timer"
  /\ cvInFlight < MaxCvInFlight
  /\ IF cvCancelled
       THEN /\ cvPc' = "stopped"
            /\ UNCHANGED cvInFlight
       ELSE /\ videoReady
            /\ cvPc' = CvPcAfterRequest
            /\ cvInFlight' = cvInFlight + 1
  /\ UNCHANGED << mounted, audioUrl, builds, nBuilds, scheduleVars, audioVars, timerVars,
                  cameraVars, loopPc, canvas, now >>
  /\ UNCHANGED << hardwareVars, pointerVars, cvCancelled, cvResultRef, cvOutcome >>
  /\ UNCHANGED appVars

\* await fetch resolves: a cancelled tick returns, a live one reads the body
CvFetchResolves ==
  /\ cvPc = "fetch"
  /\ IF cvCancelled
       THEN /\ cvPc' = "stopped"
            /\ cvInFlight' = cvInFlight - 1
            /\ cvOutcome' = "dropped"
       ELSE /\ cvPc' = "json"
            /\ UNCHANGED << cvInFlight, cvOutcome >>
  /\ UNCHANGED << mounted, audioUrl, builds, nBuilds, scheduleVars, audioVars, timerVars,
                  cameraVars, loopPc, canvas, now >>
  /\ UNCHANGED << hardwareVars, pointerVars, cvCancelled, cvResultRef >>
  /\ UNCHANGED appVars

\* the catch branch: nulls are published unless cancelled, then setTimeout(tick)
CvCatch ==
  /\ cvPc' = "timer"
  /\ cvInFlight' = cvInFlight - 1
  /\ cvOutcome' = "error"
  /\ IF cvCancelled
       THEN UNCHANGED << position, cvResultRef >>
       ELSE /\ CvSetPosition(CvAfterFailure(position))
            /\ cvResultRef' = CvAfterFailure(cvResultRef)
  /\ UNCHANGED << mounted, audioUrl, builds, nBuilds, scheduleVars, audioVars, timerVars,
                  cameraVars, loopPc, canvas, now >>
  /\ UNCHANGED << hardwareVars, videoReady, inFlight, cvCancelled >>
  /\ UNCHANGED appVars

\* await fetch rejects
CvFetchRejects ==
  /\ cvPc = "fetch"
  /\ CvCatch

\* await res.json() rejects
CvJsonRejects ==
  /\ cvPc = "json"
  /\ CvCatch

\* await res.json() resolves with data: the answer is published (there is no
\* cancelled test after this await), then setTimeout(tick)
CvJsonResolves(data) ==
  /\ cvPc = "json"
  /\ cvPc' = "timer"
  /\ cvInFlight' = cvInFlight - 1
  /\ IF data # Null
       THEN /\ CvSetPosition(data)
            /\ cvResultRef' = data
            /\ cvOutcome' = "found"
       ELSE /\ CvSetPosition(CvAfterFailure(position))
            /\ cvResultRef' = CvAfterFailure(cvResultRef)
            /\ cvOutcome' = "notfound"
  /\ UNCHANGED << mounted, audioUrl, builds, nBuilds, scheduleVars, audioVars, timerVars,
                  cameraVars, loopPc, canvas, now >>
  /\ UNCHANGED << hardwareVars, videoReady, inFlight, cvCancelled >>
  /\ UNCHANGED appVars

\* the component unmounts: every cleanup runs, the tracking effect's sets
\* cancelled = true (it has a cleanup only if it ran with a stream)
CvUnmount ==
  /\ mounted
  /\ mounted' = FALSE
  /\ builds' = CancelBuilds
  /\ activeIntervals' = IntervalsAfterCleanup
  /\ countdownIntervalRef' = IntervalRefAfterCleanup
  /\ IF audioRef # NoUrl
       THEN /\ gameStartTimeRef' = Null
            /\ audioRef' = NoUrl
            /\ audioPlaying' = FALSE
       ELSE UNCHANGED << gameStartTimeRef, audioRef, audioPlaying >>
  /\ trackLive' = IF activeStream THEN FALSE ELSE trackLive
  /\ cvCancelled' = (cvPc # "off")
  /\ UNCHANGED << audioUrl, nBuilds, scheduleVars, countdown, showEndScreen,
                  handsShowEndScreen, cameraPc, stream, error, activeStream, loopPc,
                  canvas, now >>
  /\ UNCHANGED << hardwareVars, pointerVars, cvPc, cvResultRef, cvInFlight, cvOutcome >>
  /\ AppBackToStart

CvNext ==
  \/ \E dt \in TickSteps : Tick(dt)
  \/ BuildNext
  \/ \E i \in BuildIds : CountdownTick(i)
  \/ CvCameraGranted
  \/ CameraDenied
  \/ CvTickFires
  \/ CvFetchResolves
  \/ CvFetchRejects
  \/ \E data \in CvResults : CvJsonResolves(data)
  \/ CvJsonRejects
  \/ CvUnmount

CvSpec == Init /\ [][CvNext]_vars

(* ------------------------------------------------------------------ *)
(* App navigation (App.tsx), the generate pipeline of StartScreen       *)
(* (StartScreen.tsx handleGenerateSong) and SongListPage                *)
(* ------------------------------------------------------------------ *)
\* everything a GameScreen instance owns
gameScreenVars == << mounted, audioUrl, builds, nBuilds, scheduleVars, audioVars, timerVars,
                     cameraVars, loopPc, canvas, hardwareVars, pointerVars, cvVars >>

\* the awaits of handleGenerateSong, in order
InFlightPcs == {"gemini", "geminiJson", "music", "blob", "save", "saveJson"}

NextAwait(pc) ==
  CASE pc = "gemini" -> "geminiJson"
    [] pc = "geminiJson" -> "music"
    [] pc = "music" -> "blob"
    [] pc = "blob" -> "save"
    [] pc = "save" -> "saveJson"

Launched == {k \in PipelineIds : pipelines[k].pc # "none"}

\* the StartScreen instance that started a run is the one mounted now
StartMounted(inst) == page = "start" /\ startGen = inst

\* urls /songs/save answers with (none: data.url missing) and urls of the song list
SavedUrls == AudioUrls \cup {NoUrl}

\* page === "game" renders a new GameScreen with audioUrl = u: its state is
\* initial and its effects have run
GameScreenMount(u) ==
  /\ mounted' = TRUE
  /\ audioUrl' = u
  /\ nBuilds' = IF u = NoUrl THEN 0 ELSE 1
  /\ builds' = [b \in BuildIds |-> IF b = 1 /\ u # NoUrl THEN NewBuild(u) ELSE NoBuild]
  /\ tilesRef' = << >>
  /\ tileDisplayTimesRef' = << >>
  /\ beatTypesRef' = << >>
  /\ energiesRef' = << >>
  /\ gameEndTimeRef' = Null
  /\ gameStartTimeRef' = Null
  /\ countdown' = Null
  /\ countdownIntervalRef' = 0
  /\ activeIntervals' = {}
  /\ showEndScreen' = FALSE
  /\ handsShowEndScreen' = FALSE
  /\ audioRef' = NoUrl
  /\ audioPlaying' = FALSE
  /\ cameraPc' = "pending"
  /\ stream' = FALSE
  /\ error' = FALSE
  /\ activeStream' = FALSE
  /\ trackLive' = FALSE
  /\ loopPc' = "off"
  /\ canvas' = << >>
  /\ score' = 0
  /\ lastAccepted' = [k \in Buttons |-> Null]
  /\ pressLog' = << >>
  /\ position' = Null
  /\ videoReady' = FALSE
  /\ inFlight' = 0
  /\ cvPc' = "off"
  /\ cvCancelled' = FALSE
  /\ cvResultRef' = Null
  /\ cvInFlight' = 0
  /\ cvOutcome' = "none"
  /\ UNCHANGED now

\* onStart is called in the finally block too
CallsAfterCatchAlways(calls) == calls + 1

\* the catch block does not call onStart
CallsAfterCatch(calls) == calls

\* a click on Generate: the button is disabled while isStarting, and the
\* handler returns at once when isStarting; otherwise setIsStarting(true),
\* setError(null) and the first request
HandleGenerateSong ==
  /\ page = "start"
  /\ ~isStarting
  /\ Cardinality(Launched) < MaxPipelines
  /\ pipelines' = [pipelines EXCEPT ![Cardinality(Launched) + 1] =
                     [pc |-> "gemini", inst |-> startGen, calls |-> 0]]
  /\ isStarting' = TRUE
  /\ startError' = FALSE
  /\ UNCHANGED << page, currentSong, startGen, entryUrl, now >>
  /\ UNCHANGED gameScreenVars

\* one of the first five awaits of run k resolves (a non-ok response does not throw)
AwaitResolves(k) ==
  /\ pipelines[k].pc \in InFlightPcs \ {"saveJson"}
  /\ pipelines' = [pipelines EXCEPT ![k].pc = NextAwait(pipelines[k].pc)]
  /\ UNCHANGED << page, currentSong, startGen, isStarting, startError, entryUrl, now >>
  /\ UNCHANGED gameScreenVars

\* an await of run k throws: catch sets the error, finally setIsStarting(false);
\* both are dropped when the StartScreen of the run is no longer mounted
AwaitRejects(k) ==
  /\ pipelines[k].pc \in InFlightPcs
  /\ pipelines' = [pipelines EXCEPT ![k].pc = "failed",
                                    ![k].calls = CallsAfterCatch(pipelines[k].calls)]
  /\ IF StartMounted(pipelines[k].inst)
       THEN /\ startError' = TRUE
            /\ isStarting' = FALSE
       ELSE UNCHANGED << startError, isStarting >>
  /\ UNCHANGED << page, currentSong, startGen, entryUrl, now >>
  /\ UNCHANGED gameScreenVars

\* await saveres.json() of run k resolves: onStart(savedAudioUrl), i.e.
\* setCurrentSong(url ?? null) and setPage("game") of the App the run's
\* StartScreen was rendered by, then setIsStarting(false). The game page mounts
\* a GameScreen, or, when it is already shown, passes it the new audioUrl.
SaveJsonResolves(k, url) ==
  /\ pipelines[k].pc = "saveJson"
  /\ pipelines' = [pipelines EXCEPT ![k].pc = "done", ![k].calls = pipelines[k].calls + 1]
  /\ currentSong' = url
  /\ page' = "game"
  /\ isStarting' = FALSE
  /\ startError' = FALSE
  /\ IF page = "game"
       THEN /\ IF url # audioUrl
                 THEN /\ url # NoUrl => nBuilds < MaxSessions
                      /\ SetAudioUrl(url)
                 ELSE UNCHANGED << gameScreenVars, now >>
            /\ UNCHANGED entryUrl
       ELSE /\ GameScreenMount(url)
            /\ entryUrl' = url
  /\ UNCHANGED startGen

\* onSavedSongs: setPage("songs"); the StartScreen unmounts
OnSavedSongs ==
  /\ page = "start"
  /\ page' = "songs"
  /\ isStarting' = FALSE
  /\ startError' = FALSE
  /\ UNCHANGED << currentSong, startGen, pipelines, entryUrl, now >>
  /\ UNCHANGED gameScreenVars

\* onBack of SongListPage: setPage("start")
SongsOnBack ==
  /\ page = "songs"
  /\ AppBackToStart
  /\ UNCHANGED << gameScreenVars, now >>

\* onSelectSong(songUrl): setCurrentSong(songUrl), setPage("game")
OnSelectSong(u) ==
  /\ page = "songs"
  /\ currentSong' = u
  /\ page' = "game"
  /\ entryUrl' = u
  /\ GameScreenMount(u)
  /\ UNCHANGED << startGen, isStarting, startError, pipelines >>

\* the app starts on the start page: no GameScreen is mounted
AppInit ==
  /\ mounted = FALSE
  /\ audioUrl = NoUrl
  /\ nBuilds = IF audioUrl = NoUrl THEN 0 ELSE 1
  /\ builds = [b \in BuildIds |-> IF b = 1 /\ audioUrl # NoUrl THEN NewBuild(audioUrl) ELSE NoBuild]
  /\ tilesRef = << >>
  /\ tileDisplayTimesRef = << >>
  /\ beatTypesRef = << >>
  /\ energiesRef = << >>
  /\ gameEndTimeRef = Null
  /\ gameStartTimeRef = Null
  /\ countdown = Null
  /\ countdownIntervalRef = 0
  /\ activeIntervals = {}
  /\ showEndScreen = FALSE
  /\ handsShowEndScreen = FALSE
  /\ audioRef = NoUrl
  /\ audioPlaying = FALSE
  /\ cameraPc = "pending"
  /\ stream = FALSE
  /\ error = FALSE
  /\ activeStream = FALSE
  /\ trackLive = FALSE
  /\ loopPc = "off"
  /\ canvas = << >>
  /\ now = 0
  /\ score = 0
  /\ lastAccepted = [k \in Buttons |-> Null]
  /\ pressLog = << >>
  /\ position = Null
  /\ videoReady = FALSE
  /\ inFlight = 0
  /\ cvPc = "off"
  /\ cvCancelled = FALSE
  /\ cvResultRef = Null
  /\ cvInFlight = 0
  /\ cvOutcome = "none"
  /\ page = "start"
  /\ currentSong = NoUrl
  /\ startGen = 1
  /\ isStarting = FALSE
  /\ startError = FALSE
  /\ pipelines = [k \in PipelineIds |-> NoPipeline]
  /\ entryUrl = NoUrl

AppNext ==
  \/ HandleGenerateSong
  \/ \E k \in PipelineIds : AwaitResolves(k)
  \/ \E k \in PipelineIds : AwaitRejects(k)
  \/ \E k \in PipelineIds, url \in SavedUrls : SaveJsonResolves(k, url)
  \/ OnSavedSongs
  \/ SongsOnBack
  \/ \E u \in AudioUrls : OnSelectSong(u)
  \/ Unmount

AppSpec == AppInit /\ [][AppNext]_vars

(* ================================================================== *)
(* Properties                                                          *)
(* ================================================================== *)
Elapsed == now - gameStartTimeRef

\* time from the last display time to the end of the session: 0.05 + 4 + 0.4 + 3
TailAfterLastTile ==
  TILE_FADE_IN_DURATION + TILE_VISIBLE_DURATION + TILE_FADE_OUT_DURATION + END_SCREEN_DELAY

BuildEnded(b) == builds[b].pc \in {"done", "returned", "threw"}

(* C1: the session never transitions to Ended early.  In every step in which
   showEndScreen becomes true, the session is Playing (countdown = 0, startedAt
   recorded), the end time is defined and elapsed = now - startedAt >= endTime;
   with the display times [0, 1, 2] s that step happens at elapsed >= 9.45 s. *)
C1_NoEarlyEnd ==
  [][ (~showEndScreen /\ showEndScreen') =>
        /\ countdown = 0
        /\ gameStartTimeRef # Null
        /\ gameEndTimeRef # Null
        /\ Elapsed >= gameEndTimeRef
        /\ tileDisplayTimesRef = <<0, 100, 200>> => Elapsed >= 945 ]_vars

\* the session with display times [0, 1, 2] has ended at elapsed = 9.45 s exactly
C1_Witness ==
  /\ showEndScreen
  /\ tileDisplayTimesRef = <<0, 100, 200>>
  /\ gameStartTimeRef # Null
  /\ Elapsed = 945

(* C2 (as claimed): in every run that reaches Playing with the end time
   defined, once elapsed >= endTime the session eventually shows the end screen
   with the audio paused, unless the component is unmounted or the session is
   replaced first. *)
C2_EventuallyEnded ==
  (/\ mounted /\ audioUrl # NoUrl /\ countdown = 0
   /\ gameStartTimeRef # Null /\ gameEndTimeRef # Null /\ Elapsed >= gameEndTimeRef)
    ~> (\/ showEndScreen /\ ~audioPlaying
        \/ ~mounted
        \/ audioUrl = NoUrl
        \/ countdown # 0)

(* C3: for every non-empty, possibly unordered list of display times the
   builder sets endTime = max(displayAt) + 0.05 + 4 + 0.4 + 3: the end time is
   the tail after some display time and not before the tail after any of
   them (so it depends on the set of display times only, not on their
   order); for [0, 1, 2] s it is 9.45 s. *)
C3_EndTimeIsMaxPlusTail ==
  Len(tileDisplayTimesRef) > 0 =>
    /\ \E i \in 1..Len(tileDisplayTimesRef) :
         gameEndTimeRef = tileDisplayTimesRef[i] + TailAfterLastTile
    /\ \A j \in 1..Len(tileDisplayTimesRef) :
         gameEndTimeRef >= tileDisplayTimesRef[j] + TailAfterLastTile
    /\ tileDisplayTimesRef = <<0, 100, 200>> => gameEndTimeRef = 945

\* a build has written an unordered schedule whose maximum is not its last entry
C3_Witness ==
  /\ tileDisplayTimesRef = <<200, 0, 100>>
  /\ gameEndTimeRef = 945
  /\ \E b \in BuildIds : builds[b].pc = "done"

\* what the last frame drew for tile i
Drawn(i) == \E k \in 1..Len(canvas) : canvas[k].tile = i
OpacityOf(cv, i) ==
  IF \E k \in 1..Len(cv) : cv[k].tile = i
    THEN (CHOOSE d \in {cv[k] : k \in 1..Len(cv)} : d.tile = i).opacity
    ELSE 0
TileTime(i) == DisplayAt(tileDisplayTimesRef, i)
FullOpacity == TILE_BASE_OPACITY * TILE_FADE_IN_DURATION * TILE_FADE_OUT_DURATION
Playing == countdown = 0 /\ gameStartTimeRef # Null

(* C4: per tile, as a function of elapsed.  Before displayAt the tile is not
   drawn (opacity 0); between two frames inside [displayAt, displayAt+FADE_IN]
   the opacity strictly increases; in the hold phase it equals the base
   opacity; between two frames from fadeOutStart on it decreases (strictly
   until the fade-out is over); from fadeOutStart+FADE_OUT on the tile is not
   drawn again. *)
C4_TilePhases ==
  /\ [](Playing =>
         \A i \in 1..Len(tilesRef) :
           /\ Elapsed < TileTime(i) => (~Drawn(i) /\ OpacityOf(canvas, i) = 0)
           /\ Elapsed >= FadeOutStart(TileTime(i)) + TILE_FADE_OUT_DURATION
                => (~Drawn(i) /\ OpacityOf(canvas, i) = 0)
           /\ (Elapsed >= TileTime(i) + TILE_FADE_IN_DURATION
                 /\ Elapsed <= FadeOutStart(TileTime(i)))
                => (Drawn(i) /\ OpacityOf(canvas, i) = FullOpacity))
  /\ [][ (Playing /\ Elapsed' > Elapsed) =>
           \A i \in 1..Len(tilesRef) :
             /\ (Elapsed >= TileTime(i)
                   /\ Elapsed' <= TileTime(i) + TILE_FADE_IN_DURATION)
                  => OpacityOf(canvas', i) > OpacityOf(canvas, i)
             /\ Elapsed >= FadeOutStart(TileTime(i))
                  => OpacityOf(canvas', i) <= OpacityOf(canvas, i)
             /\ (Elapsed >= FadeOutStart(TileTime(i))
                   /\ Elapsed' <= FadeOutStart(TileTime(i)) + TILE_FADE_OUT_DURATION)
                  => OpacityOf(canvas', i) < OpacityOf(canvas, i) ]_vars

\* a frame half way through the fade-out of the tile displayed at 0.03 s
C4_Witness ==
  /\ Playing
  /\ tileDisplayTimesRef = <<3, 0>>
  /\ Elapsed = FadeOutStart(3) + 20
  /\ Drawn(1)
  /\ OpacityOf(canvas, 1) * 2 = FullOpacity

(* C5: for every tile and every frame the opacity used to draw the tile lies
   in [0, base opacity], and there is no jump at the two phase boundaries: the
   frame at displayAt+FADE_IN and the frame at fadeOutStart both draw the base
   opacity, and from one frame to the next the opacity of a tile that stays
   drawn changes by no more than the steepest ramp allows in that time. *)
C5_OpacityBoundedNoJump ==
  /\ [](Playing =>
         /\ \A k \in 1..Len(canvas) :
              canvas[k].opacity >= 0 /\ canvas[k].opacity <= FullOpacity
         /\ \A i \in 1..Len(tilesRef) :
              (Elapsed = TileTime(i) + TILE_FADE_IN_DURATION
                 \/ Elapsed = FadeOutStart(TileTime(i)))
                => OpacityOf(canvas, i) = FullOpacity)
  /\ [][ (Playing /\ Elapsed' > Elapsed) =>
           \A i \in 1..Len(tilesRef) :
             (Elapsed >= TileTime(i)
                /\ Elapsed' <= FadeOutStart(TileTime(i)) + TILE_FADE_OUT_DURATION) =>
               LET rise == TILE_BASE_OPACITY * TILE_FADE_OUT_DURATION * (Elapsed' - Elapsed)
               IN /\ OpacityOf(canvas', i) - OpacityOf(canvas, i) <= rise
                  /\ OpacityOf(canvas, i) - OpacityOf(canvas', i) <= rise ]_vars

\* the frame at displayAt + FADE_IN of the tile displayed at 0.03 s
C5_Witness ==
  /\ Playing
  /\ tileDisplayTimesRef = <<3>>
  /\ Elapsed = 3 + TILE_FADE_IN_DURATION
  /\ Drawn(1)
  /\ OpacityOf(canvas, 1) = FullOpacity

AllEqual(energies) == \A i, j \in 1..Len(energies) : energies[i] = energies[j]

(* C6 (as claimed): energyNorm computed by a frame is exactly 0.5 for every
   tile when all energies of the session are equal. *)
C6_HalfWhenAllEqual ==
  [][ (canvas' # canvas /\ AllEqual(energiesRef')) =>
        \A k \in 1..Len(canvas') :
          2 * canvas'[k].energyNorm.num = canvas'[k].energyNorm.den ]_vars

(* C6 (amended): energyNorm computed by a frame for a drawn tile is a quotient
   with a positive divisor lying in [0, 1], whatever the energies; when all
   energies of the session are equal it is 0 for every tile that has an energy
   entry, and it is 0.5 exactly for the tiles that have no energy entry. *)
C6_EnergyNormRange ==
  [][ canvas' # canvas =>
        \A k \in 1..Len(canvas') :
          LET en == canvas'[k].energyNorm IN
          /\ en.den > 0
          /\ en.num >= 0
          /\ en.num <= en.den
          /\ (AllEqual(energiesRef') /\ canvas'[k].tile <= Len(energiesRef')) => en.num = 0
          /\ canvas'[k].tile > Len(energiesRef') => 2 * en.num = en.den ]_vars

\* a drawn tile of a session whose energies are all equal
C6_Witness ==
  /\ Playing
  /\ Len(energiesRef) > 1
  /\ AllEqual(energiesRef)
  /\ \E k \in 1..Len(canvas) :
       canvas[k].tile = 2 /\ canvas[k].energyNorm = [num |-> 0, den |-> 1]

(* C7 (as claimed): when the beat service returned no timestamps, the fallback
   schedule has one display time per tile, spaced 0.5 s apart from 0; with 5
   tiles the display times are 0, 0.5, 1.0, 1.5, 2.0 s. *)
C7_FallbackPerTile ==
  \A b \in BuildIds :
    (builds[b].pc = "done" /\ Len(builds[b].beatTimestamps) = 0) =>
      /\ Len(tileDisplayTimesRef) = Len(tilesRef)
      /\ \A i \in 1..Len(tileDisplayTimesRef) :
           tileDisplayTimesRef[i] = (i - 1) * FALLBACK_SPACING
      /\ Len(tilesRef) = 5 => tileDisplayTimesRef = <<0, 50, 100, 150, 200>>

(* C8 (as claimed): after the build has written the session schedule, the
   tiles, the display times, the beat types and the energies all have the same
   length. *)
C8_SameLengths ==
  \A b \in BuildIds :
    builds[b].pc = "done" =>
      /\ Len(tileDisplayTimesRef) = Len(tilesRef)
      /\ Len(beatTypesRef) = Len(tilesRef)
      /\ Len(energiesRef) = Len(tilesRef)

(* C9 (as claimed): the timeline build always resolves.  Whenever the build
   function of the current audio source has ended without having been
   cancelled, the session has left Loading: the countdown has been started. *)
C9_BuildAlwaysResolves ==
  \A b \in BuildIds :
    (BuildEnded(b) /\ ~builds[b].cancelled) => countdown # Null

(* C10: a non-success answer of the beat service is not fatal.  When the
   status is not ok and the answer has been read, the build takes the timeline
   as empty (no timestamps, types or energies), issues the tile-layout request
   for one tile and, when the layout arrives before any cancellation, starts
   the countdown at 5 with the placeholder schedule. *)
C10_NonOkBeatContinues ==
  [][ \A b \in BuildIds :
        /\ (builds[b].pc = "textBeat" /\ builds'[b].pc \notin {"textBeat", "threw"}) =>
             /\ builds'[b].pc = "fetchTiles"
             /\ builds'[b].beatTimestamps = << >>
             /\ builds'[b].count = 1
             /\ beatTypesRef' = << >>
             /\ energiesRef' = << >>
        /\ (builds[b].pc = "jsonTiles" /\ ~builds[b].ok
              /\ builds'[b].pc \notin {"jsonTiles", "threw"}) =>
             /\ builds[b].count = 1
             /\ tileDisplayTimesRef' = <<0>>
             /\ Len(tilesRef') > 0
             /\ ~builds[b].cancelled => (builds'[b].pc = "done" /\ countdown' = COUNTDOWN_START)
    ]_vars

\* a build whose beat request was answered with a non-success status has started the countdown
C10_Witness ==
  \E b \in BuildIds :
    /\ builds[b].pc = "done"
    /\ ~builds[b].ok
    /\ countdown = COUNTDOWN_START
    /\ tileDisplayTimesRef = <<0>>

\* the step in which onResults runs for a processed frame
FrameProcessed == mounted /\ loopPc = "sending" /\ loopPc' = "raf"

(* C11 (as claimed): if the beat timeline is empty (zero timestamps), the end
   time stays undefined after the build and the session is never ended. *)
C11_EmptyTimelineNeverEnds ==
  \A b \in BuildIds :
    (b = nBuilds /\ audioUrl # NoUrl /\ builds[b].pc = "done"
       /\ Len(builds[b].beatTimestamps) = 0)
      => (gameEndTimeRef = Null /\ ~showEndScreen)

(* C11 (amended): if the beat timeline is empty, the build that completes
   writes the one-entry fallback schedule [0] and sets the end time to
   0 + 0.05 + 4 + 0.4 + 3 = 7.45 s; with that schedule the session is ended by
   the first processed frame with elapsed >= 7.45 s and by no earlier one. *)
C11_EmptyTimelineEndsAtFallback ==
  [][ /\ \A b \in BuildIds :
           (builds[b].pc = "jsonTiles" /\ Len(builds[b].beatTimestamps) = 0
              /\ builds'[b].pc \in {"done", "returned"})
             => (tileDisplayTimesRef' = <<0>> /\ gameEndTimeRef' = 745)
      /\ (tileDisplayTimesRef = <<0>> /\ ~showEndScreen /\ showEndScreen')
           => Elapsed >= 745
      /\ (FrameProcessed /\ FramePlaying /\ tileDisplayTimesRef = <<0>>
            /\ Elapsed >= 745)
           => showEndScreen' ]_vars

\* a session built from an empty timeline has been ended by a frame
C11_Witness ==
  /\ showEndScreen
  /\ tileDisplayTimesRef = <<0>>
  /\ gameEndTimeRef = 745
  /\ gameStartTimeRef # Null
  /\ Elapsed >= 745
  /\ \E b \in BuildIds : builds[b].pc = "done" /\ Len(builds[b].beatTimestamps) = 0

(* C12: after the build resolves the countdown takes the values 5, 4, 3, 2,
   1, 0 in that order, one decrement per tick of the interval.  The countdown
   is always null or in 0..5; an interval is active only while the countdown
   is in 1..5, and there is at most one; every change of the countdown is the
   start at 5 by a resolving build, the reset to null when the audio url is
   removed, or a decrement by exactly 1 by a tick; and the tick that produces 0
   clears the interval. *)
C12_CountdownSequence ==
  /\ [](/\ countdown = Null \/ countdown \in 0..COUNTDOWN_START
        /\ activeIntervals # {} =>
             (countdown \in 1..COUNTDOWN_START /\ activeIntervals = {countdownIntervalRef}))
  /\ [][ countdown' # countdown =>
           \/ /\ countdown' = COUNTDOWN_START
              /\ \E b \in BuildIds : builds[b].pc = "jsonTiles" /\ builds'[b].pc = "done"
           \/ /\ countdown' = Null
              /\ audioUrl # NoUrl /\ audioUrl' = NoUrl
           \/ /\ countdown \in 1..COUNTDOWN_START
              /\ countdown' = countdown - 1
              /\ activeIntervals # {}
              /\ countdown' = 0 => (activeIntervals' = {} /\ countdownIntervalRef' = 0)
              /\ countdown' # 0 => activeIntervals' = activeIntervals ]_vars

\* the countdown has been counted down to 0 by the ticks and its interval is cleared
C12_Witness ==
  /\ countdown = 0
  /\ activeIntervals = {}
  /\ countdownIntervalRef = 0
  /\ audioPlaying
  /\ \E b \in BuildIds : builds[b].pc = "done"

\* the states of the session of the current audio source
SessionIdle == audioUrl = NoUrl
SessionLoading == audioUrl # NoUrl /\ builds[nBuilds].pc # "done"
SessionCountdown ==
  audioUrl # NoUrl /\ builds[nBuilds].pc = "done" /\ countdown \in 1..COUNTDOWN_START
SessionPlaying ==
  audioUrl # NoUrl /\ builds[nBuilds].pc = "done" /\ countdown = 0 /\ ~showEndScreen
SessionEnded == audioUrl # NoUrl /\ builds[nBuilds].pc = "done" /\ showEndScreen

(* C13 (as claimed): startedAt (gameStartTimeRef) is null in Idle, Loading and
   Countdown. *)
C13_StartNullBeforePlaying ==
  (SessionIdle \/ SessionLoading \/ SessionCountdown) => gameStartTimeRef = Null

(* C14 (as claimed): the session clock is null in every state that is Ended,
   and in every state that is Loading for a newly chosen source. *)
C14_ClockResetOnEndAndNewSource ==
  (SessionEnded \/ SessionLoading) => gameStartTimeRef = Null

(* C15 (as claimed): a camera permission error blocks entry to Playing.  Once
   the error is set, the audio is not started and startedAt is not recorded. *)
C15_CameraErrorBlocksPlaying ==
  [][ error =>
        /\ ~audioPlaying => ~audioPlaying'
        /\ gameStartTimeRef = Null => gameStartTimeRef' = Null ]_vars

(* C16 (as claimed): after teardown the camera stream is released.  Once the
   component is unmounted and getUserMedia has completed, no camera track
   obtained by the component is running. *)
C16_CameraReleasedAfterTeardown ==
  (~mounted /\ cameraPc # "pending") => ~trackLive

\* the teardown of the build effect of build b runs in this step
TornDown(b) == ~builds[b].cancelled /\ builds'[b].cancelled

(* C17: after the teardown of the build effect (unmount or change of the
   audio url) in any state, no countdown interval is active and the ref is
   null; a cancelled build never owns an active interval, so it creates none
   later; after an unmount no interval is ever active again; and the teardown
   run a second time changes nothing: the flag is already set and the ref is
   already null, so the cleanup applied to the state it left gives that state. *)
C17_TeardownLeavesNoInterval ==
  /\ [](/\ \A b \in BuildIds : builds[b].cancelled => b \notin activeIntervals
        /\ ~mounted => (activeIntervals = {} /\ countdownIntervalRef = 0))
  /\ [][ /\ \A b \in BuildIds :
              TornDown(b) => (activeIntervals' = {} /\ countdownIntervalRef' = 0)
         /\ (mounted /\ ~mounted') =>
              /\ CancelBuilds' = builds'
              /\ IntervalsAfterCleanup' = activeIntervals'
              /\ IntervalRefAfterCleanup' = countdownIntervalRef' ]_vars

\* the session was replaced while its setup requests were pending: the
\* cancelled build has resumed and returned, no countdown was started
C17_Witness ==
  /\ nBuilds = 2
  /\ builds[1].cancelled
  /\ builds[1].pc = "returned"
  /\ builds[2].pc = "fetchTiles"
  /\ countdown = Null
  /\ countdownIntervalRef = 0
  /\ activeIntervals = {}

\* the log holds two presses of the same button, both made in play
TwoPressesInPlay ==
  /\ Len(pressLog) = 2
  /\ pressLog[1].button = pressLog[2].button
  /\ pressLog[1].playing /\ pressLog[2].playing

PressGap == pressLog[2].at - pressLog[1].at

(* C18: debounce of the hardware controller.  Two press events of the same
   button arriving 30 ms apart (inside the 80 ms refractory window) produce
   exactly one score increment, and two arriving 100 ms apart produce exactly
   two. *)
C18_Debounce ==
  TwoPressesInPlay =>
    /\ PressGap = 3 => score = 1
    /\ PressGap = 10 => score = 2

\* two presses of button 0, 30 ms apart, have been delivered in play
C18_Witness ==
  /\ TwoPressesInPlay
  /\ pressLog[1].button = 0
  /\ PressGap = 3
  /\ score = 1

(* C19: the score never changes before Playing is entered.  In every state
   that is Idle, Loading or Countdown the score is 0, whatever press events
   have arrived and whichever of build and countdown completed first, and in
   no step does the score decrease. *)
C19_NoScoreBeforePlaying ==
  /\ []((SessionIdle \/ SessionLoading \/ SessionCountdown) => score = 0)
  /\ [][score' >= score]_vars

\* a press has arrived during the countdown and has not been scored
C19_Witness ==
  /\ SessionCountdown
  /\ Len(pressLog) > 0
  /\ lastAccepted[0] # Null
  /\ score = 0

(* C20 (as claimed): audio playback starts only after the build of the
   current source has resolved and its countdown has reached 0, also when the
   audio url of the mounted component is replaced by another non-empty url:
   whenever an audio element exists it plays the current source, whose build
   is done and whose countdown is at 0. *)
C20_AudioOnlyAfterBuildAndCountdown ==
  audioRef # NoUrl =>
    /\ audioUrl = audioRef
    /\ builds[nBuilds].pc = "done"
    /\ countdown = 0

\* a tracking tick of the live effect has just completed
CvTickCompleted == ~cvCancelled /\ cvInFlight' = cvInFlight - 1

\* C21: every tracking tick of the live colour tracking effect whose request
\* fails (fetch or body parsing throws) or whose answer reports nothing found
\* leaves the published position and the stored CV result null; a value of an
\* earlier tick is never kept.
C21_FailedTickNulls ==
  [][(CvTickCompleted /\ cvOutcome' \in {"error", "notfound"})
       => (position' = Null /\ cvResultRef' = Null)]_vars

\* a tick has failed while the effect is live, and both values are null
C21_Witness ==
  /\ mounted
  /\ ~cvCancelled
  /\ cvOutcome = "error"
  /\ cvPc = "timer"
  /\ position = Null
  /\ cvResultRef = Null

\* C22: at most one /cv/track request is in flight; a request is issued only
\* when none is pending, and every completed tick of the live effect arms the
\* timer of the next tick, after an error as after an answer.
C22_OneRequestInFlight ==
  /\ [](cvInFlight <= 1 /\ (cvInFlight = 1 <=> cvPc \in {"fetch", "json"}))
  /\ [][/\ cvInFlight' > cvInFlight => cvInFlight = 0
        /\ CvTickCompleted => cvPc' = "timer"]_vars

\* a request is in flight again after a tick that ended in an error
C22_Witness ==
  /\ cvInFlight = 1
  /\ cvPc = "fetch"
  /\ cvOutcome = "error"
  /\ ~cvCancelled

\* the camera has stopped delivering frames and no detection result is awaited
SourceUnavailable == mounted /\ stream /\ ~videoReady /\ inFlight = 0

\* C23: when the camera stops delivering frames mid-session the published
\* position becomes null: once time passes with the source unavailable, no
\* position from before the outage is still published.
C23_NullWhenSourceLost ==
  [][(SourceUnavailable /\ now' > now) => position' = Null]_vars

\* C24: a cancelled build writes nothing: every continuation of a build whose
\* effect has been torn down leaves tiles, display times, beat types, energies,
\* endTime and the countdown as they were.
C24_CancelledBuildWritesNothing ==
  [][\A b \in BuildIds :
       (builds[b].cancelled /\ builds'[b] # builds[b])
         => UNCHANGED << scheduleVars, countdown >>]_vars

\* C25: after the colour tracking effect is torn down, a tick that was in
\* flight publishes nothing when its request or body read completes (the
\* position and the stored CV result stay as they were), and no further
\* /cv/track request is issued.
C25_CancelledTickPublishesNothing ==
  [][cvCancelled => /\ cvResultRef' = cvResultRef
                    /\ position' = position
                    /\ cvInFlight' <= cvInFlight]_vars

\* C26: after the frame-processing effect is torn down no animation-frame
\* callback is scheduled and no inference is sent any more, whatever the
\* interleaving of the teardown with an awaited inference: an unmounted
\* component has no requested frame, and a torn-down loop sends nothing.
C26_NoFrameAfterTeardown ==
  /\ [](~mounted => loopPc # "raf")
  /\ [][~mounted => inFlight' <= inFlight]_vars

\* C27: at most one landmark inference is in flight; while one is pending no
\* frame is sent (display frames that pass meanwhile are dropped, not queued),
\* and a new inference is sent only when none is pending.
C27_OneInferenceInFlight ==
  /\ [](inFlight <= 1 /\ (inFlight = 1 <=> loopPc = "sending"))
  /\ [][inFlight' > inFlight => inFlight = 0]_vars

\* an inference is pending, after an earlier one completed, while time has passed
C27_Witness ==
  /\ mounted
  /\ inFlight = 1
  /\ loopPc = "sending"
  /\ position # Null
  /\ now > 0

\* C28: the renderer never blocks on inference: during Playing, when time
\* passes while a landmark inference is still pending, the canvas shows the
\* tiles of the new time.
C28_DrawnWhileInferencePending ==
  [][(mounted /\ stream /\ FramePlaying /\ ~showEndScreen /\ loopPc = "sending" /\ now' > now)
       => canvas' = DrawTiles(now' - gameStartTimeRef)]_vars

\* C29: tiles are drawn only in Playing: a frame draws a tile only if the
\* countdown is 0, the clock is started and the tile list is non-empty, and
\* never while the session is Idle, Loading or counting down.
C29_TilesOnlyInPlaying ==
  [][(FrameProcessed /\ canvas' # << >>)
       => /\ countdown = 0
          /\ gameStartTimeRef # Null
          /\ Len(tilesRef) > 0
          /\ ~SessionIdle
          /\ ~SessionLoading
          /\ ~SessionCountdown]_vars

\* the audio effect's deps change or the component unmounts in this step
AudioTornDown ==
  \/ mounted /\ ~mounted'
  \/ audioUrl' # audioUrl
  \/ countdown' # countdown

\* C30: audio is playing only in Playing: whenever the session audio is
\* playing, audioUrl is set, the countdown is 0 and the session has not Ended;
\* the step that enters Ended pauses the audio, and a teardown or a change of
\* countdown or audioUrl pauses it and clears the audio reference (which then
\* holds nothing, or the audio just started for the new url at countdown 0).
C30_AudioOnlyInPlaying ==
  /\ [](audioPlaying => /\ audioUrl # NoUrl
                        /\ countdown = 0
                        /\ ~showEndScreen
                        /\ audioRef = audioUrl)
  /\ [][/\ (~showEndScreen /\ showEndScreen') => ~audioPlaying'
        /\ AudioTornDown =>
             \/ audioRef' = NoUrl /\ ~audioPlaying' /\ gameStartTimeRef' = Null
             \/ /\ mounted'
                /\ audioUrl' # NoUrl
                /\ countdown' = 0
                /\ audioRef' = audioUrl'
                /\ gameStartTimeRef' = now']_vars

\* the session has ended with its audio paused
C30_Witness ==
  /\ mounted
  /\ showEndScreen
  /\ audioRef # NoUrl
  /\ ~audioPlaying
  /\ countdown = 0

\* C31: a render frame is read-only on session data: processing one frame
\* leaves tiles, display times, beat types, energies, startedAt, endTime and
\* the countdown (and the url, the builds and the audio element) unchanged; it
\* changes only the canvas, showEndScreen, position and the audio pause state.
C31_FrameReadOnly ==
  [][FrameProcessed => /\ UNCHANGED << scheduleVars, gameStartTimeRef, countdown >>
                       /\ UNCHANGED << audioUrl, builds, audioRef >>]_vars

\* a processed frame has ended the session, paused the audio and published a
\* position, and the schedule and the clock are still in place
C31_Witness ==
  /\ mounted
  /\ showEndScreen
  /\ ~audioPlaying
  /\ position # Null
  /\ Len(tilesRef) > 0
  /\ gameStartTimeRef # Null
  /\ gameEndTimeRef # Null
  /\ countdown = 0

\* C32: tile visibility is deterministic in elapsed: in every state of a
\* playing session the drawn tiles, with their opacity, radius factor and
\* colour, are the value of one function of the schedule and of elapsed,
\* whatever the pointer state, the frames processed before and their number.
C32_DeterministicInElapsed ==
  (Playing /\ Len(tilesRef) > 0) => canvas = DrawTiles(Elapsed)

\* elapsed 4 (reached by frames 1+3, 3+1 or 1+1+1+1) with a pointer published
\* and the tile of display time 3 in its fade-in
C32_Witness ==
  /\ Playing
  /\ tileDisplayTimesRef = <<3, 0>>
  /\ Len(tilesRef) = 2
  /\ Elapsed = 4
  /\ position # Null
  /\ Drawn(1)
  /\ OpacityOf(canvas, 1) > 0
  /\ OpacityOf(canvas, 1) < FullOpacity

\* the circles drawn for tiles i and j do not overlap: centre distance >= sum
\* of the radii (compared as squares, radii as fractions)
Apart(i, j) ==
  LET ri == TileRadius(EnergyNorm(energiesRef, i))
      rj == TileRadius(EnergyNorm(energiesRef, j))
      sum == ri.num * rj.den + rj.num * ri.den
      den == ri.den * rj.den
  IN DistSq(TileCentre(tilesRef[i]), TileCentre(tilesRef[j])) * den * den >= sum * sum

\* C33: two tiles within TILE_WINDOW indices of each other never overlap when
\* drawn: for a layout that keeps the requested spacing, on a canvas of the
\* requested size, their centre distance is at least the sum of their drawn
\* radii, for all energies.
C33_NoOverlapInWindow ==
  \A i, j \in 1..Len(tilesRef) :
    (i < j /\ j - i <= TILE_WINDOW /\ Drawn(i) /\ Drawn(j)) => Apart(i, j)

\* C34: without an audio source the session never leaves Idle: while audioUrl
\* is undefined the countdown is null, tiles, display times, types, energies
\* and endTime are empty/null, no audio exists or plays, and no setup request
\* (beat analysis or tile layout) is issued.
C34_IdleWithoutAudio ==
  /\ [](audioUrl = NoUrl =>
          /\ countdown = Null
          /\ tilesRef = << >>
          /\ tileDisplayTimesRef = << >>
          /\ beatTypesRef = << >>
          /\ energiesRef = << >>
          /\ gameEndTimeRef = Null
          /\ audioRef = NoUrl
          /\ ~audioPlaying)
  /\ [][(audioUrl = NoUrl /\ audioUrl' = NoUrl) =>
          \A b \in BuildIds :
            builds'[b].pc \in {"fetchBeat", "fetchTiles"} => builds'[b].pc = builds[b].pc]_vars

\* C35: at the moment the session becomes Ended no tile is inside its
\* visibility window: for every tile, with or without a display time of its
\* own and for unordered display times, elapsed has reached displayAt + fade
\* in + visible + fade out, and the frame that ends the session draws no tile.
C35_NoTileVisibleAtEnd ==
  [][(~showEndScreen /\ showEndScreen') =>
       \A i \in 1..Len(tilesRef) :
         /\ Elapsed >= TileTime(i) + TILE_FADE_IN_DURATION + TILE_VISIBLE_DURATION
                         + TILE_FADE_OUT_DURATION
         /\ ~(\E k \in 1..Len(canvas') : canvas'[k].tile = i)]_vars

\* a session with unordered display times and more tiles than display times
\* has ended
C35_Witness ==
  /\ showEndScreen
  /\ tileDisplayTimesRef = <<200, 0>>
  /\ Len(tilesRef) = 5
  /\ canvas = << >>
  /\ Elapsed >= gameEndTimeRef

\* handleGenerateSong runs whose request chain is in flight
InFlightRuns == {k \in PipelineIds : pipelines[k].pc \in InFlightPcs}

\* C36: at most one generate/save request chain is in flight: while a run is
\* in flight a further click on Generate starts no second one, and isStarting
\* is true only while a run of the mounted StartScreen is in flight.
C36_OnePipelineInFlight ==
  /\ Cardinality(InFlightRuns) <= 1
  /\ isStarting => \E k \in InFlightRuns : StartMounted(pipelines[k].inst)

\* C37: in one handleGenerateSong run onStart is called exactly once when all
\* requests complete without throwing and never when one of them throws; a
\* failing run leaves the page and the current song as they are and sets the
\* error message of its StartScreen, which stays on the start page.
C37_OnStartOnceOnSuccess ==
  /\ [](\A k \in PipelineIds :
          pipelines[k].calls = IF pipelines[k].pc = "done" THEN 1 ELSE 0)
  /\ [][\A k \in PipelineIds :
          /\ (pipelines[k].pc \in InFlightPcs /\ pipelines'[k].pc = "done")
               => /\ pipelines'[k].calls = pipelines[k].calls + 1
                  /\ page' = "game"
          /\ (pipelines[k].pc \in InFlightPcs /\ pipelines'[k].pc = "failed")
               => /\ pipelines'[k].calls = pipelines[k].calls
                  /\ page' = page
                  /\ currentSong' = currentSong
                  /\ StartMounted(pipelines[k].inst)
                       => (startError' /\ ~isStarting' /\ page' = "start")]_vars

\* one run has failed without calling onStart, a second one has succeeded,
\* called onStart once and opened the game page
C37_Witness ==
  /\ pipelines[1].pc = "failed"
  /\ pipelines[1].calls = 0
  /\ pipelines[2].pc = "done"
  /\ pipelines[2].calls = 1
  /\ page = "game"
  /\ mounted

\* C38: whenever GameScreen is mounted its audioUrl is the url passed by the
\* onStart or onSelectSong call that caused the entry to the game page, and
\* Back from the game or songs page returns to the start page with GameScreen
\* unmounted.
C38_GameUrlIsEntryUrl ==
  /\ [](mounted => (page = "game" /\ audioUrl = entryUrl))
  /\ [][(page # "start" /\ page' = "start") => ~mounted']_vars

=============================================================================
